---- MODULE Spec2Model ----
(***************************************************************************)
(* Model of the image-inspector option validator                           *)
(* (cmd.ImageInspectorOptions.Validate) and of the helpers of pkg/util.    *)
(*                                                                         *)
(* A Go slice is a record [arr, len]: arr is the backing array (its        *)
(* length is the capacity), len the slice length.  os.Stat is modelled by  *)
(* its outcome per path: a directory, a non-directory entry, the           *)
(* not-exist error, or another error (permission denied, ...).  The        *)
(* outcome of a path is arbitrary, and fixed from the first Validate call  *)
(* on options that name the path.                                          *)
(***************************************************************************)
EXTENDS Integers, Sequences, FiniteSets, TLC

VARIABLES
    opts,    \* the *ImageInspectorOptions under validation
    fs,      \* outcome of os.Stat for each path, once Validate has met the path
    err,     \* what the last Validate call returned (NoCall before any call)
    base,    \* the options as they were constructed
    a,       \* pkg/util: argument of Unique
    b,       \* pkg/util: Unique(a)
    c,       \* pkg/util: Unique(b)
    upc      \* pkg/util: position of the Unique caller

vars == <<opts, fs, err, base, a, b, c, upc>>

-----------------------------------------------------------------------------
(* Bounds of the model *)

MaxOverrides == 3
MaxLen == 4

-----------------------------------------------------------------------------
(* Constants of the program *)

DefaultDockerSocketLocation == "unix:///var/run/docker.sock"

\* pkg/api and pkg/openscap are not part of the shown sources; the values
\* below are the ones the specification names.
PullAlways == "always"
PullNever == "never"
PullIfNotPresent == "if-not-present"
PullPolicyOptions == <<PullAlways, PullNever, PullIfNotPresent>>
ScanOptions == <<"openscap", "clamav">>
CVEUrl == "default-cve-feed-url"

-----------------------------------------------------------------------------
(* Go slices of strings *)

EmptySlice == [arr |-> <<>>, len |-> 0]

\* the elements a slice shows: arr[1..len]
Elems(s) == SubSeq(s.arr, 1, s.len)

Cap(s) == Len(s.arr)

\* append(s, x): with spare capacity the element is written into the shared
\* backing array; otherwise a new array of capacity newcap is allocated.
\* res is the slice returned, src is s as it is after the call.
GoAppend(s, x, newcap) ==
    IF s.len < Cap(s)
    THEN LET arr2 == [s.arr EXCEPT ![s.len + 1] = x]
         IN  [res |-> [arr |-> arr2, len |-> s.len + 1],
              src |-> [arr |-> arr2, len |-> s.len]]
    ELSE LET arr2 == [k \in 1..newcap |->
                         IF k <= s.len THEN s.arr[k]
                         ELSE IF k = s.len + 1 THEN x ELSE ""]
         IN  [res |-> [arr |-> arr2, len |-> s.len + 1],
              src |-> s]

\* the capacities a growing append may choose: an exact fit, or one spare slot
NewCaps(s) == {s.len + 1, s.len + 2}

-----------------------------------------------------------------------------
(* pkg/util *)

RECURSIVE StringInList(_, _)
StringInList(s, l) ==
    IF l = <<>> THEN FALSE
    ELSE IF s = Head(l) THEN TRUE
    ELSE StringInList(s, Tail(l))

RECURSIVE UniqueLoop(_, _)
UniqueLoop(rest, acc) ==
    IF rest = <<>> THEN acc
    ELSE IF ~StringInList(Head(rest), acc)
         THEN UniqueLoop(Tail(rest), Append(acc, Head(rest)))
         ELSE UniqueLoop(Tail(rest), acc)

UniqueNoCheck(x) == x

Unique(x) == UniqueLoop(x, <<>>)

-----------------------------------------------------------------------------
(* cmd: the options *)

StringFields ==
    {"URI", "Image", "Container", "DstPath", "Serve", "Username", "PasswordFile",
     "ScanResultsDir", "CVEUrlPath", "ClamSocket", "PostResultURL",
     "PostResultTokenFile", "AuthToken", "AuthTokenFile", "PullPolicy"}

BoolFields == {"ScanContainerChanges", "Chroot", "OpenScapHTML"}

\* the zero value of the struct
ZeroOptions ==
    [URI |-> "", Image |-> "", Container |-> "", ScanContainerChanges |-> FALSE,
     DstPath |-> "", Serve |-> "", Chroot |-> FALSE, DockerCfg |-> EmptySlice,
     Username |-> "", PasswordFile |-> "", ScanTypes |-> EmptySlice,
     ScanResultsDir |-> "", OpenScapHTML |-> FALSE, CVEUrlPath |-> "",
     ClamSocket |-> "", PostResultURL |-> "", PostResultTokenFile |-> "",
     AuthToken |-> "", AuthTokenFile |-> "", PullPolicy |-> ""]

NoPullPolicyDefault ==
    [ZeroOptions EXCEPT !.URI = DefaultDockerSocketLocation,
                        !.CVEUrlPath = CVEUrl]

NewDefaultImageInspectorOptions ==
    [ZeroOptions EXCEPT !.URI = DefaultDockerSocketLocation,
                        !.DockerCfg = EmptySlice,
                        !.ScanTypes = EmptySlice,
                        !.CVEUrlPath = CVEUrl,
                        !.PullPolicy = PullIfNotPresent]

\* what a reader of the options sees: every field, the two lists by their
\* elements and length
View(i) == [i EXCEPT !.DockerCfg = Elems(i.DockerCfg),
                     !.ScanTypes = Elems(i.ScanTypes)]

-----------------------------------------------------------------------------
(* os.Stat *)

Paths == {"/cfg", "/pw", "/res"}

\* "dir", "file": err == nil, and fi.IsDir() or not; "notexist": an error
\* for which os.IsNotExist holds; "error": any other error
StatOutcomes == {"dir", "file", "notexist", "error"}

\* the outcome of a path no call has looked at yet is not fixed
Unseen == "unseen"

Stat(fsys, p) == fsys[p]

StatOK(r) == r \in {"dir", "file"}

IsDir(r) == r = "dir"

IsNotExist(r) == r = "notexist"

-----------------------------------------------------------------------------
(* cmd: Validate *)

Nil == [msg |-> "nil", args |-> <<>>]

Errorf(format, args) == [msg |-> format, args |-> args]

URIMissingOrNoImage(i) == Len(i.URI) = 0 /\ Len(i.Image) = 0

URIMissing(i) == Len(i.URI) = 0

ImageWithoutContainer(i) == Len(i.Image) > 0 /\ Len(i.Container) = 0

ImageAndContainer(i) == Len(i.Image) > 0 /\ Len(i.Container) > 0

NoImageNoContainer(i) == Len(i.Image) = 0 /\ Len(i.Container) = 0

ChangesWithoutImage(i) == i.ScanContainerChanges /\ Len(i.Image) = 0

ChangesWithoutContainer(i) == i.ScanContainerChanges /\ Len(i.Container) = 0

DockerCfgAndUsername(i) == i.DockerCfg.len > 0 /\ Len(i.Username) > 0

UsernameWithoutPassword(i) == Len(i.Username) > 0 /\ Len(i.PasswordFile) = 0

ChrootAlone(i) == i.Chroot

ChrootWithoutServe(i) == Len(i.Serve) = 0 /\ i.Chroot

ResultsDirWithoutScanTypes(i) == Len(i.ScanResultsDir) > 0 /\ i.ScanTypes.len = 0

ResultsDirIsDir(i, fsys) ==
    /\ Len(i.ScanResultsDir) > 0
    /\ StatOK(Stat(fsys, i.ScanResultsDir)) /\ IsDir(Stat(fsys, i.ScanResultsDir))

ResultsDirNotDir(i, fsys) ==
    /\ Len(i.ScanResultsDir) > 0
    /\ StatOK(Stat(fsys, i.ScanResultsDir)) /\ ~IsDir(Stat(fsys, i.ScanResultsDir))

TokenFileWithoutURL(i) == Len(i.PostResultTokenFile) > 0 /\ Len(i.PostResultURL) = 0

HTMLWithoutOpenscap(i) == i.OpenScapHTML /\ ~StringInList("openscap", Elems(i.ScanTypes))

\* rules of lines 94-129, in the order of the code
ValidateHead(i, fsys) ==
    IF URIMissing(i)
    THEN Errorf("docker socket connection must be specified", <<>>)
    ELSE IF ImageAndContainer(i)
    THEN Errorf("options container and image are mutually exclusive", <<>>)
    ELSE IF NoImageNoContainer(i)
    THEN Errorf("docker image or container must be specified to inspect", <<>>)
    ELSE IF ChangesWithoutContainer(i)
    THEN Errorf("please specify docker container", <<>>)
    ELSE IF DockerCfgAndUsername(i)
    THEN Errorf("only specify dockercfg file or username/password pair for authentication", <<>>)
    ELSE IF UsernameWithoutPassword(i)
    THEN Errorf("please specify password-file for the given username", <<>>)
    ELSE IF ChrootWithoutServe(i)
    THEN Errorf("change root can be used only when serving the image through webdav", <<>>)
    ELSE IF ResultsDirWithoutScanTypes(i)
    THEN Errorf("scan-result-dir can be used only when spacifing scan-type", <<>>)
    ELSE IF ResultsDirNotDir(i, fsys)
    THEN Errorf("scan-results-dir %q is not a directory", <<i.ScanResultsDir>>)
    ELSE IF TokenFileWithoutURL(i)
    THEN Errorf("post-results-url must be set to use post-results-token-file", <<>>)
    ELSE IF HTMLWithoutOpenscap(i)
    THEN Errorf("openscap-html-report can be used only when specifying scan-type as \"openscap\"", <<>>)
    ELSE Nil

\* the options after append(i.DockerCfg, i.PasswordFile) has run
AppendAssigned(i) ==
    [i EXCEPT !.DockerCfg = GoAppend(i.DockerCfg, i.PasswordFile, i.DockerCfg.len + 1).res]

AfterAppend(i) ==
    [i EXCEPT !.DockerCfg = GoAppend(i.DockerCfg, i.PasswordFile, i.DockerCfg.len + 1).src]

PasswordFileFirst(i) == <<i.PasswordFile>> \o Elems(i.DockerCfg)

\* the slice the loop of line 130 ranges over
FileList(i) == Elems(GoAppend(i.DockerCfg, i.PasswordFile, i.DockerCfg.len + 1).res)

\* loop of lines 130-136: the error of the first iteration that returns
RECURSIVE CheckFiles(_, _)
CheckFiles(fls, fsys) ==
    IF fls = <<>> THEN Nil
    ELSE IF Len(Head(fls)) > 0 /\ IsNotExist(Stat(fsys, Head(fls)))
         THEN Errorf("%s does not exist", <<Head(fls)>>)
         ELSE CheckFiles(Tail(fls), fsys)

ClamavWithSocket(i) ==
    StringInList("clamav", Elems(i.ScanTypes)) /\ Len(i.ClamSocket) > 0

ClamavWithoutSocket(i) ==
    StringInList("clamav", Elems(i.ScanTypes)) /\ Len(i.ClamSocket) = 0

\* loop of lines 143-148
RECURSIVE CheckScanTypes(_)
CheckScanTypes(types) ==
    IF types = <<>> THEN Nil
    ELSE IF ~StringInList(Head(types), ScanOptions)
         THEN Errorf("%s is not one of the available scan-types which are %v",
                     <<Head(types)>> \o ScanOptions)
         ELSE CheckScanTypes(Tail(types))

PullPolicyInvalid(i) == ~StringInList(i.PullPolicy, PullPolicyOptions)

\* rules of lines 130-155
ValidateTail(i, fsys) ==
    IF CheckFiles(FileList(i), fsys) # Nil
    THEN CheckFiles(FileList(i), fsys)
    ELSE IF ClamavWithoutSocket(i)
    THEN Errorf("clam-socket must be set to use clamav scan type", <<>>)
    ELSE IF i.ScanTypes.len > 0 /\ CheckScanTypes(Elems(i.ScanTypes)) # Nil
    THEN CheckScanTypes(Elems(i.ScanTypes))
    ELSE IF PullPolicyInvalid(i)
    THEN Errorf("%s is not one of the available pull-policy options which are %v",
                <<i.PullPolicy>> \o PullPolicyOptions)
    ELSE Nil

\* Validate: the error returned and the options as the call leaves them
Validate(i, fsys) ==
    IF ValidateHead(i, fsys) # Nil
    THEN [err |-> ValidateHead(i, fsys), opts |-> i]
    ELSE [err |-> ValidateTail(i, fsys), opts |-> AfterAppend(i)]

-----------------------------------------------------------------------------
(* The caller: builds the options, then validates them *)

\* the values the caller may give a string field
Values(f) ==
    CASE f = "URI"                 -> {"", DefaultDockerSocketLocation}
      [] f = "Image"               -> {"", "busybox"}
      [] f = "Container"           -> {"", "abc"}
      [] f = "DstPath"             -> {"", "/dst"}
      [] f = "Serve"               -> {"", ":8080"}
      [] f = "Username"            -> {"", "user"}
      [] f = "PasswordFile"        -> {"", "/pw"}
      [] f = "ScanResultsDir"      -> {"", "/res"}
      [] f = "CVEUrlPath"          -> {"", CVEUrl}
      [] f = "ClamSocket"          -> {"", "/clam.sock"}
      [] f = "PostResultURL"       -> {"", "http://results"}
      [] f = "PostResultTokenFile" -> {"", "/token"}
      [] f = "AuthToken"           -> {"", "secret"}
      [] f = "AuthTokenFile"       -> {"", "/authtoken"}
      [] f = "PullPolicy"          -> {"", PullIfNotPresent, PullNever, "sometimes"}

DockerCfgValues == {"", "/cfg"}

ScanTypeValues == {"openscap", "clamav", "rootkit"}

\* how many options the caller has overridden: the fields that differ from
\* the constructed value, and the values added to the two lists
Overrides(i, i0) ==
    Cardinality({f \in StringFields \cup BoolFields : i[f] # i0[f]})
        + i.DockerCfg.len + i.ScanTypes.len

\* the paths the options name
Referenced(i) ==
    ({i.ScanResultsDir, i.PasswordFile} \cup {i.DockerCfg.arr[k] : k \in 1..i.DockerCfg.len})
        \cap Paths

\* the file systems a call on options i may meet when fsys is what earlier
\* calls have seen: the paths i names have an outcome, and a path seen
\* before keeps its outcome
Snapshots(fsys, i) ==
    {g \in [Paths -> StatOutcomes \cup {Unseen}] :
        \A p \in Paths :
            IF p \in Referenced(i)
            THEN g[p] \in StatOutcomes /\ (fsys[p] # Unseen => g[p] = fsys[p])
            ELSE g[p] = fsys[p]}

NoCall == [msg |-> "no call", args |-> <<>>]

UtilIdle == a = <<>> /\ b = <<>> /\ c = <<>> /\ upc = "idle"

Init ==
    /\ opts \in {NewDefaultImageInspectorOptions, ZeroOptions}
    /\ fs = [p \in Paths |-> Unseen]
    /\ err = NoCall
    /\ base = opts
    /\ UtilIdle

\* i.<f> = v, for a string field
SetString ==
    /\ err = NoCall /\ Overrides(opts, base) < MaxOverrides
    /\ \E f \in StringFields : \E v \in Values(f) :
          /\ v # opts[f]
          /\ opts' = [opts EXCEPT ![f] = v]
    /\ UNCHANGED <<fs, err, base, a, b, c, upc>>

\* i.<f> = true or false, for a bool field
SetBool ==
    /\ err = NoCall /\ Overrides(opts, base) < MaxOverrides
    /\ \E f \in BoolFields : opts' = [opts EXCEPT ![f] = ~opts[f]]
    /\ UNCHANGED <<fs, err, base, a, b, c, upc>>

\* (*MultiStringVar).Set on i.DockerCfg
DockerCfgSet ==
    /\ err = NoCall /\ Overrides(opts, base) < MaxOverrides
    /\ \E s \in DockerCfgValues : \E newcap \in NewCaps(opts.DockerCfg) :
          opts' = [opts EXCEPT !.DockerCfg = GoAppend(opts.DockerCfg, s, newcap).res]
    /\ UNCHANGED <<fs, err, base, a, b, c, upc>>

\* (*MultiStringVar).Set on i.ScanTypes
ScanTypesSet ==
    /\ err = NoCall /\ Overrides(opts, base) < MaxOverrides
    /\ \E s \in ScanTypeValues : \E newcap \in NewCaps(opts.ScanTypes) :
          opts' = [opts EXCEPT !.ScanTypes = GoAppend(opts.ScanTypes, s, newcap).res]
    /\ UNCHANGED <<fs, err, base, a, b, c, upc>>

\* i.Validate()
DoValidate ==
    /\ \E fsys \in Snapshots(fs, opts) :
          /\ fs' = fsys
          /\ err' = Validate(opts, fsys).err
          /\ opts' = Validate(opts, fsys).opts
    /\ UNCHANGED <<base, a, b, c, upc>>

Next == SetString \/ SetBool \/ DockerCfgSet \/ ScanTypesSet \/ DoValidate

Spec == Init /\ [][Next]_vars

-----------------------------------------------------------------------------
(* A caller of pkg/util.Unique *)

UtilValues == {"a", "b", "c"}

SeqsUpTo(S, n) == UNION {[1..k -> S] : k \in 0..n}

InitUtil ==
    /\ opts = NewDefaultImageInspectorOptions
    /\ fs = [p \in Paths |-> Unseen]
    /\ err = NoCall
    /\ base = NewDefaultImageInspectorOptions
    /\ a \in SeqsUpTo(UtilValues, MaxLen)
    /\ b = <<>>
    /\ c = <<>>
    /\ upc = "start"

\* b := Unique(a)
CallUnique ==
    /\ upc = "start"
    /\ b' = Unique(a)
    /\ upc' = "once"
    /\ UNCHANGED <<opts, fs, err, base, a, c>>

\* c := Unique(b)
CallUniqueAgain ==
    /\ upc = "once"
    /\ c' = Unique(b)
    /\ upc' = "twice"
    /\ UNCHANGED <<opts, fs, err, base, a, b>>

NextUtil == CallUnique \/ CallUniqueAgain

SpecUtil == InitUtil /\ [][NextUtil]_vars

-----------------------------------------------------------------------------
(* The rules of the validator as the specification states them *)

Range(s) == {s[k] : k \in 1..Len(s)}

\* the kind of an error, by its message
KindOf(e) ==
    CASE e.msg = "nil" -> "None"
      [] e.msg = "docker socket connection must be specified" -> "MissingConnection"
      [] e.msg = "options container and image are mutually exclusive" -> "ConflictingTarget"
      [] e.msg = "docker image or container must be specified to inspect" -> "MissingTarget"
      [] e.msg = "please specify docker container" -> "MissingContainerForDiff"
      [] e.msg = "only specify dockercfg file or username/password pair for authentication"
            -> "ConflictingAuth"
      [] e.msg = "please specify password-file for the given username" -> "MissingPasswordFile"
      [] e.msg = "change root can be used only when serving the image through webdav"
            -> "ChrootRequiresServe"
      [] e.msg = "scan-result-dir can be used only when spacifing scan-type"
            -> "ResultsDirWithoutScanType"
      [] e.msg = "scan-results-dir %q is not a directory" -> "ResultsDirNotADirectory"
      [] e.msg = "post-results-url must be set to use post-results-token-file"
            -> "TokenFileWithoutPostURL"
      [] e.msg = "openscap-html-report can be used only when specifying scan-type as \"openscap\""
            -> "HTMLReportRequiresOpenSCAP"
      [] e.msg = "%s does not exist" -> "FileNotFound"
      [] e.msg = "clam-socket must be set to use clamav scan type" -> "MissingClamSocket"
      [] e.msg = "%s is not one of the available scan-types which are %v" -> "InvalidScanType"
      [] e.msg = "%s is not one of the available pull-policy options which are %v"
            -> "InvalidPullPolicy"
      [] OTHER -> "Unknown"

RuleKinds ==
    <<"MissingConnection", "ConflictingTarget", "MissingTarget", "MissingContainerForDiff",
      "ConflictingAuth", "MissingPasswordFile", "ChrootRequiresServe",
      "ResultsDirWithoutScanType", "ResultsDirNotADirectory", "TokenFileWithoutPostURL",
      "HTMLReportRequiresOpenSCAP", "FileNotFound", "MissingClamSocket", "InvalidScanType",
      "InvalidPullPolicy">>

ValidScanTypes == Range(ScanOptions)

ValidPullPolicies == Range(PullPolicyOptions)

\* RegistryConfigFiles followed by PasswordFile
AuthPaths(v) == v.DockerCfg \o <<v.PasswordFile>>

\* rule k is violated by the options seen as v under file system fsys
RuleViolated(k, v, fsys) ==
    CASE k = 1  -> v.URI = ""
      [] k = 2  -> v.Image # "" /\ v.Container # ""
      [] k = 3  -> v.Image = "" /\ v.Container = ""
      [] k = 4  -> v.ScanContainerChanges /\ v.Container = ""
      [] k = 5  -> v.DockerCfg # <<>> /\ v.Username # ""
      [] k = 6  -> v.Username # "" /\ v.PasswordFile = ""
      [] k = 7  -> v.Chroot /\ v.Serve = ""
      [] k = 8  -> v.ScanResultsDir # "" /\ v.ScanTypes = <<>>
      [] k = 9  -> v.ScanResultsDir # "" /\ fsys[v.ScanResultsDir] = "file"
      [] k = 10 -> v.PostResultTokenFile # "" /\ v.PostResultURL = ""
      [] k = 11 -> v.OpenScapHTML /\ "openscap" \notin Range(v.ScanTypes)
      [] k = 12 -> \E p \in Range(AuthPaths(v)) : p # "" /\ fsys[p] = "notexist"
      [] k = 13 -> "clamav" \in Range(v.ScanTypes) /\ v.ClamSocket = ""
      [] k = 14 -> \E t \in Range(v.ScanTypes) : t \notin ValidScanTypes
      [] k = 15 -> v.PullPolicy \notin ValidPullPolicies

ViolatedRules(v, fsys) == {k \in 1..15 : RuleViolated(k, v, fsys)}

MinOf(S) == CHOOSE k \in S : \A m \in S : k <= m

Validated == err # NoCall

\* rules lo..hi all pass in the current state
RulesPass(lo, hi) == ViolatedRules(View(opts), fs) \cap (lo..hi) = {}

-----------------------------------------------------------------------------
(* Claims *)

\* C1: Validate returns the error of the lowest-numbered violated rule of the
\* fifteen, and nil exactly when no rule is violated.
C1_FirstViolatedRule ==
    Validated =>
        LET bad == ViolatedRules(View(opts), fs)
        IN  /\ (err = Nil) <=> (bad = {})
            /\ bad # {} => KindOf(err) = RuleKinds[MinOf(bad)]

\* a call that several violated rules competed for, decided for a rule that
\* reads the file system
C1_Witness ==
    /\ Validated
    /\ KindOf(err) = "ResultsDirNotADirectory"
    /\ Cardinality(ViolatedRules(View(opts), fs)) >= 2

\* C2 as stated: with ImageRef and ContainerRef both non-empty Validate fails
\* with ConflictingTarget, whatever the other fields are.
C2_Original ==
    (Validated /\ opts.Image # "" /\ opts.Container # "")
        => KindOf(err) = "ConflictingTarget"

\* C2 amended: with ConnectionURI non-empty and ImageRef and ContainerRef both
\* non-empty, Validate fails with ConflictingTarget, whatever the other fields
\* are (ScanContainerChanges included).
C2_ConflictingTarget ==
    (Validated /\ opts.URI # "" /\ opts.Image # "" /\ opts.Container # "")
        => KindOf(err) = "ConflictingTarget"

C2_Witness ==
    /\ Validated
    /\ opts.URI # "" /\ opts.Image # "" /\ opts.Container # ""
    /\ opts.ScanContainerChanges
    /\ KindOf(err) = "ConflictingTarget"

\* C3: with ConnectionURI empty Validate fails with MissingConnection,
\* whatever the other fields and the file system are.
C3_MissingConnection ==
    (Validated /\ opts.URI = "") => KindOf(err) = "MissingConnection"

C3_Witness ==
    /\ Validated
    /\ opts.URI = "" /\ opts.Image # "" /\ opts.Container # ""
    /\ KindOf(err) = "MissingConnection"

\* the configuration of C4: the socket, container "abc", container changes,
\* every other field zero
C4_Config ==
    [View(ZeroOptions) EXCEPT !.URI = "unix:///var/run/docker.sock",
                              !.Container = "abc",
                              !.ScanContainerChanges = TRUE]

\* C4 as stated: Validate passes for that configuration.
C4_Original ==
    (Validated /\ View(opts) = C4_Config) => err = Nil

\* C4 amended: Validate passes for that configuration once PullPolicy is also
\* set to a valid pull-policy identifier; with PullPolicy zero-valued it fails
\* with InvalidPullPolicy.
C4_PassesWithPullPolicy ==
    /\ \A pp \in ValidPullPolicies :
          (Validated /\ View(opts) = [C4_Config EXCEPT !.PullPolicy = pp]) => err = Nil
    /\ (Validated /\ View(opts) = C4_Config) => KindOf(err) = "InvalidPullPolicy"

C4_Witness ==
    /\ View(opts) = [C4_Config EXCEPT !.PullPolicy = PullIfNotPresent]
    /\ err = Nil

\* the first path of ps, in order, that is non-empty and whose outcome is in
\* outcomes; "" when there is none
RECURSIVE FirstPathWith(_, _, _)
FirstPathWith(ps, fsys, outcomes) ==
    IF ps = <<>> THEN ""
    ELSE IF Head(ps) # "" /\ fsys[Head(ps)] \in outcomes THEN Head(ps)
    ELSE FirstPathWith(Tail(ps), fsys, outcomes)

\* C5 as stated: when rules 1-11 pass and some non-empty path among
\* RegistryConfigFiles followed by PasswordFile cannot be confirmed to exist
\* (stat does not succeed on it), Validate fails with FileNotFound naming the
\* first such path.
C5_Original ==
    LET p == FirstPathWith(AuthPaths(View(opts)), fs, {"notexist", "error"})
    IN  (Validated /\ RulesPass(1, 11) /\ p # "")
            => (KindOf(err) = "FileNotFound" /\ err.args = <<p>>)

\* C5 amended: when rules 1-11 pass, Validate fails with FileNotFound exactly
\* when stat reports "does not exist" for some non-empty path among
\* RegistryConfigFiles followed by PasswordFile, and the error names the first
\* such path in that order; empty paths are skipped, and a path whose stat
\* fails with another error is treated like a path that exists.
C5_FileNotFound ==
    LET p == FirstPathWith(AuthPaths(View(opts)), fs, {"notexist"})
    IN  (Validated /\ RulesPass(1, 11))
            => /\ p # "" => (KindOf(err) = "FileNotFound" /\ err.args = <<p>>)
               /\ p = "" => KindOf(err) # "FileNotFound"

\* two missing paths: the one from DockerCfg, first in the order, is named
C5_Witness ==
    /\ Validated
    /\ RulesPass(1, 11)
    /\ View(opts).DockerCfg = <<"/cfg">> /\ opts.PasswordFile = "/pw"
    /\ fs["/cfg"] = "notexist" /\ fs["/pw"] = "notexist"
    /\ KindOf(err) = "FileNotFound" /\ err.args = <<"/cfg">>

\* C6: when rules 1-8 pass and ScanResultsDir is non-empty, Validate fails
\* with ResultsDirNotADirectory if the entry at that path is not a directory,
\* and goes on to rule 10 and the rules after it if the entry is a directory
\* or there is no entry.
C6_ResultsDir ==
    (Validated /\ RulesPass(1, 8) /\ opts.ScanResultsDir # "")
        => /\ fs[opts.ScanResultsDir] = "file"
                => /\ KindOf(err) = "ResultsDirNotADirectory"
                   /\ err.args = <<opts.ScanResultsDir>>
           /\ fs[opts.ScanResultsDir] \in {"dir", "notexist"}
                => /\ KindOf(err) \in {"None"} \cup {RuleKinds[k] : k \in 10..15}
                   /\ RuleViolated(10, View(opts), fs)
                         => KindOf(err) = "TokenFileWithoutPostURL"

C6_Witness ==
    /\ Validated
    /\ RulesPass(1, 8)
    /\ opts.ScanResultsDir = "/res" /\ fs["/res"] = "file"
    /\ KindOf(err) = "ResultsDirNotADirectory"

\* C7: options that Validate accepts satisfy the invariants of the data model.
C7_ValidOptions ==
    LET v == View(opts)
    IN  err = Nil
            => /\ (v.Image # "") # (v.Container # "")
               /\ v.ScanContainerChanges => v.Container # ""
               /\ ~(v.DockerCfg # <<>> /\ v.Username # "")
               /\ v.Username # "" => v.PasswordFile # ""
               /\ v.Chroot => v.Serve # ""
               /\ \A t \in Range(v.ScanTypes) : t \in ValidScanTypes
               /\ "clamav" \in Range(v.ScanTypes) => v.ClamSocket # ""
               /\ v.OpenScapHTML => "openscap" \in Range(v.ScanTypes)
               /\ v.PullPolicy \in ValidPullPolicies

C7_Witness ==
    /\ err = Nil
    /\ "clamav" \in Range(View(opts).ScanTypes)
    /\ opts.ClamSocket # ""

\* C8: Unique returns each distinct value of its input once, in the order of
\* first occurrence, and applying it to its own result changes nothing.
C8_Unique ==
    /\ upc \in {"once", "twice"}
          => /\ Range(b) = Range(a)
             /\ \A j, k \in 1..Len(b) : j # k => b[j] # b[k]
             /\ \A j, k \in 1..Len(b) :
                   j < k => (\E m \in 1..Len(a) :
                                /\ a[m] = b[j]
                                /\ \A n \in 1..Len(a) : a[n] = b[k] => m < n)
    /\ upc = "twice" => c = b

C8_Witness ==
    /\ upc = "twice"
    /\ Len(a) >= 3
    /\ Len(b) = 2
    /\ a[1] = a[3]

\* C9: a Validate call leaves every field of the options as it was, the two
\* lists by content and length, and a further call on the same options under
\* the same file system returns what the call before returned.
C9_NoMutation ==
    [][err' # NoCall
          => /\ View(opts') = View(opts)
             /\ err # NoCall => err' = err]_vars

\* a call has written PasswordFile into the spare capacity of DockerCfg
C9_Witness ==
    /\ Validated
    /\ opts.DockerCfg.len >= 1
    /\ opts.DockerCfg.len < Cap(opts.DockerCfg)
    /\ opts.PasswordFile # ""
    /\ opts.DockerCfg.arr[opts.DockerCfg.len + 1] = opts.PasswordFile

\* the default options with exactly one of Image and Container set, and
\* ScanContainerChanges possibly set with Container
C10_Overridden ==
    LET d == View(NewDefaultImageInspectorOptions)
    IN  {[d EXCEPT !.Image = "busybox"],
         [d EXCEPT !.Container = "abc"],
         [d EXCEPT !.Container = "abc", !.ScanContainerChanges = TRUE]}

\* C10: the default options overridden only by one of Image and Container
\* pass Validate; the default options alone violate rule 3 and no other rule.
C10_Defaults ==
    /\ (Validated /\ View(opts) \in C10_Overridden) => err = Nil
    /\ (Validated /\ View(opts) = View(NewDefaultImageInspectorOptions))
          => /\ KindOf(err) = "MissingTarget"
             /\ ViolatedRules(View(opts), fs) = {3}

C10_Witness ==
    /\ base = NewDefaultImageInspectorOptions
    /\ View(opts) = [View(NewDefaultImageInspectorOptions)
                        EXCEPT !.Container = "abc", !.ScanContainerChanges = TRUE]
    /\ err = Nil

====
